---- MODULE Spec2Model ----
(***************************************************************************)
(* Model of app.py (manga_check): the date classifier is_past, the volume  *)
(* resolver get_books, the ingestion and reconciliation loop of main, and  *)
(* the write-back update_spreadsheet.                                      *)
(*                                                                         *)
(* Strings are sequences of one-character strings, so that parsing,        *)
(* formatting, replace and containment are computed and not assumed.       *)
(* The characters "Y", "M" and "D" stand for the date markers U+5E74       *)
(* (year), U+6708 (month) and U+65E5 (day) of the source's patterns; " "   *)
(* is whitespace; every other character is ordinary text.                  *)
(***************************************************************************)
EXTENDS Integers, Sequences, FiniteSets, TLC

VARIABLES
    date_str,       \* is_past: the argument date_str
    date_out,       \* is_past: "pending" | "true" | "false" | "ValueError"
    bk_in,          \* get_books: [search_title, num, resp]
    bk_out,         \* get_books: the outcome, or Pending
    sheet,          \* the worksheet: a sequence of rows, each a sequence of cells
    pc,             \* main: "idle" (between script runs) | "loop" (inside lines 304-328)
    rows,           \* main: rows read at line 248 by the run behind the results
    data,           \* main: the tracked-series list built at lines 263-281
    results,        \* main: the result list of lines 302-325
    idx,            \* main: the loop variable i of line 304 (0-based)
    session,        \* st.session_state: [search_results, original_data] or NoSession
    queryLog,       \* history: per get_books call of the run behind the results,
                    \* [index, kind of outcome, served: the transport reported 200]
    updated_count,  \* update_spreadsheet: updated_count of the last call on the
                    \* stored results
    writes,         \* history: update_cell calls of that call
    updatesDone,    \* history: update_spreadsheet calls on the stored results:
                    \* 0, 1, or 2 for two and more
    runs            \* history: number of check runs started

vars == <<date_str, date_out, bk_in, bk_out, sheet, pc, rows, data, results, idx,
          session, queryLog, updated_count, writes, updatesDone, runs>>

dateVars == <<date_str, date_out>>
bookVars == <<bk_in, bk_out>>
runVars == <<sheet, pc, rows, data, results, idx, session, queryLog,
             updated_count, writes, updatesDone, runs>>

----------------------------------------------------------------------------
(* Character strings                                                       *)

Digits == {"0", "1", "2", "3", "4", "5", "6", "7", "8", "9"}

DigitVal(c) ==
    CASE c = "0" -> 0 [] c = "1" -> 1 [] c = "2" -> 2 [] c = "3" -> 3
      [] c = "4" -> 4 [] c = "5" -> 5 [] c = "6" -> 6 [] c = "7" -> 7
      [] c = "8" -> 8 [] c = "9" -> 9

DigitChar(n) ==
    CASE n = 0 -> "0" [] n = 1 -> "1" [] n = 2 -> "2" [] n = 3 -> "3"
      [] n = 4 -> "4" [] n = 5 -> "5" [] n = 6 -> "6" [] n = 7 -> "7"
      [] n = 8 -> "8" [] n = 9 -> "9"

IsDigits(s) == \A k \in 1..Len(s) : s[k] \in Digits

RECURSIVE DigitsValue(_)
DigitsValue(s) ==
    IF s = <<>> THEN 0
    ELSE 10 * DigitsValue(SubSeq(s, 1, Len(s) - 1)) + DigitVal(s[Len(s)])

HasPrefix(s, p) == Len(s) >= Len(p) /\ SubSeq(s, 1, Len(p)) = p

----------------------------------------------------------------------------
(* is_past, lines 63-89                                                    *)

\* datetime(2026, 5, 1), line 64
TodayYear == 2026
TodayMonth == 5
TodayDay == 1

NoMatch == [matched |-> FALSE, year |-> <<>>, month |-> <<>>, day |-> <<>>]

\* re.match(r"(\d{4}Y\d{1,2}M)", date_str): anchored at the start, text after
\* the match is ignored.
MonthOnlyMatch(s) ==
    IF /\ Len(s) >= 5
       /\ IsDigits(SubSeq(s, 1, 4))
       /\ s[5] = "Y"
       /\ \E n \in {1, 2} :
            Len(s) >= 6 + n /\ IsDigits(SubSeq(s, 6, 5 + n)) /\ s[6 + n] = "M"
    THEN LET n == CHOOSE n \in {1, 2} :
                    Len(s) >= 6 + n /\ IsDigits(SubSeq(s, 6, 5 + n)) /\ s[6 + n] = "M"
         IN [matched |-> TRUE, year |-> SubSeq(s, 1, 4),
             month |-> SubSeq(s, 6, 5 + n), day |-> <<>>]
    ELSE NoMatch

\* re.match(r"(\d{4}Y\d{1,2}M\d{1,2}D)", date_str)
FullDateMatch(s) ==
    LET mo == MonthOnlyMatch(s)
        p  == 6 + Len(mo.month)      \* position of the month marker
    IN IF /\ mo.matched
          /\ \E n \in {1, 2} :
               Len(s) >= p + n + 1 /\ IsDigits(SubSeq(s, p + 1, p + n))
                                   /\ s[p + n + 1] = "D"
       THEN LET n == CHOOSE n \in {1, 2} :
                       Len(s) >= p + n + 1 /\ IsDigits(SubSeq(s, p + 1, p + n))
                                           /\ s[p + n + 1] = "D"
            IN [mo EXCEPT !.day = SubSeq(s, p + 1, p + n)]
       ELSE NoMatch

IsLeap(y) == (y % 4 = 0 /\ y % 100 # 0) \/ y % 400 = 0

DaysInMonth(y, m) ==
    IF m \in {4, 6, 9, 11} THEN 30
    ELSE IF m = 2 THEN (IF IsLeap(y) THEN 29 ELSE 28)
    ELSE 31

\* datetime.strptime(text, "%Y..%m..%d.."): %m takes 1..12 and %d 1..31, in one
\* or two digits; the datetime constructor then rejects year 0 and a day past
\* the end of the month. Every rejection is a ValueError.
strptime(y, m, d) ==
    LET yy == DigitsValue(y)
        mm == DigitsValue(m)
        dd == DigitsValue(d)
    IN [ok    |-> yy >= 1 /\ mm \in 1..12 /\ dd \in 1..DaysInMonth(yy, mm),
        year  |-> yy, month |-> mm, day |-> dd]

DateBefore(t) ==
    \/ t.year < TodayYear
    \/ t.year = TodayYear /\ t.month < TodayMonth
    \/ t.year = TodayYear /\ t.month = TodayMonth /\ t.day < TodayDay

Bool(b) == IF b THEN "true" ELSE "false"

is_past_le(s) ==
    LET full == FullDateMatch(s)
        mo   == MonthOnlyMatch(s)
    IN IF full.matched
       THEN LET t == strptime(full.year, full.month, full.day)
            IN IF t.ok
               THEN Bool(DateBefore(t) \/ (t.year = TodayYear /\ t.month = TodayMonth
                                           /\ t.day = TodayDay))
               ELSE "ValueError"
       ELSE IF mo.matched
       THEN LET t == strptime(mo.year, mo.month, <<"1">>)
            IN IF t.ok
               THEN Bool(t.year * 100 + t.month <= TodayYear * 100 + TodayMonth)
               ELSE "ValueError"
       ELSE "ValueError"

is_past(s) ==
    LET full == FullDateMatch(s)
        mo   == MonthOnlyMatch(s)
    IN IF full.matched
       THEN LET t == strptime(full.year, full.month, full.day)            \* line 74
            IN IF t.ok THEN Bool(DateBefore(t)) ELSE "ValueError"         \* line 75
       ELSE IF mo.matched
       THEN LET t == strptime(mo.year, mo.month, <<"1">>)                 \* line 81
            IN IF t.ok
               THEN Bool(t.year * 100 + t.month < TodayYear * 100 + TodayMonth)
               ELSE "ValueError"
       ELSE "ValueError"                                                  \* line 89

----------------------------------------------------------------------------
(* Python string operations used by get_books and main                     *)

RECURSIVE NatStr(_)
NatStr(n) == IF n < 10 THEN <<DigitChar(n)>> ELSE NatStr(n \div 10) \o <<DigitChar(n % 10)>>

\* str(n) of an int
Str(n) == IF n < 0 THEN <<"-">> \o NatStr(0 - n) ELSE NatStr(n)

\* s.strip(): whitespace removed at both ends
RECURSIVE LStrip(_)
LStrip(s) == IF s # <<>> /\ Head(s) = " " THEN LStrip(Tail(s)) ELSE s

RECURSIVE RStrip(_)
RStrip(s) ==
    IF s # <<>> /\ s[Len(s)] = " " THEN RStrip(SubSeq(s, 1, Len(s) - 1)) ELSE s

Strip(s) == RStrip(LStrip(s))

\* int(s): surrounding whitespace, one optional sign, then at least one digit;
\* anything else (the empty string included) is a ValueError.
IntParse(s) ==
    LET t    == Strip(s)
        sign == t # <<>> /\ Head(t) \in {"+", "-"}
        body == IF sign THEN Tail(t) ELSE t
    IN IF body # <<>> /\ IsDigits(body)
       THEN [ok |-> TRUE,
             value |-> IF sign /\ Head(t) = "-" THEN 0 - DigitsValue(body)
                       ELSE DigitsValue(body)]
       ELSE [ok |-> FALSE, value |-> 0]

\* s.replace(old, new) for a non-empty old: every occurrence, left to right,
\* without overlap
RECURSIVE Replace(_, _, _)
Replace(s, old, new) ==
    IF Len(s) < Len(old) THEN s
    ELSE IF HasPrefix(s, old)
    THEN new \o Replace(SubSeq(s, Len(old) + 1, Len(s)), old, new)
    ELSE <<Head(s)>> \o Replace(Tail(s), old, new)

\* sub in s
Contains(sub, s) ==
    \E k \in 0..(Len(s) - Len(sub)) : SubSeq(s, k + 1, k + Len(sub)) = sub

Placeholder == <<"n", "u", "m">>

----------------------------------------------------------------------------
(* get_books, lines 93-116                                                 *)

\* The three ways a call ends: a dict, None, or an exception that leaves it.
NoneOut  == [kind |-> "None",  title |-> <<>>, volume |-> <<>>, isbn |-> "", sales_date |-> <<>>]
RaiseOut == [kind |-> "raise", title |-> <<>>, volume |-> <<>>, isbn |-> "", sales_date |-> <<>>]
Found(book, vol) ==
    [kind |-> "result", title |-> book.title, volume |-> vol,
     isbn |-> book.isbn, sales_date |-> book.salesDate]

HttpOk == 200

\* data.get("pageCount", 1), line 100
PageCount(resp) == IF resp.hasPageCount THEN resp.pageCount ELSE 1

\* The loop of lines 106-115 over the items left to scan.
RECURSIVE ScanBooks(_, _, _)
ScanBooks(books, target, vol) ==
    IF books = <<>> THEN NoneOut
    ELSE LET book == Head(books)
             past == is_past(book.salesDate)                      \* line 108
         IN IF past = "ValueError" THEN RaiseOut                  \* leaves get_books
            ELSE IF past = "true" /\ Contains(target, book.title) \* line 109
            THEN Found(book, vol)
            ELSE ScanBooks(Tail(books), target, vol)

get_books(resp, search_title, num) ==
    IF resp.kind # "http" THEN RaiseOut          \* requests.get or .json() raises
    ELSE IF resp.status # HttpOk THEN NoneOut    \* lines 96-97
    ELSE IF PageCount(resp) >= 1                 \* line 103
    THEN LET n == IntParse(num)                  \* line 104
         IN IF ~n.ok THEN RaiseOut
            ELSE ScanBooks(resp.items,
                           Replace(search_title, Placeholder, Str(n.value + 1)),
                           Str(n.value + 1))
    ELSE NoneOut                                 \* line 116

----------------------------------------------------------------------------
(* Inputs                                                                  *)

\* Release-date strings: a year, a marker, a month, a marker, a day part and
\* trailing text, each drawn from pieces that hit and miss the two patterns.
YearPieces  == {<<"2","0","2","5">>, <<"2","0","2","6">>, <<"2","0","2","7">>,
                <<"0","0","0","0">>, <<"2","0","2">>}
YearMarks   == {<<"Y">>, <<"x">>}
MonthPieces == {<<"4">>, <<"0","4">>, <<"5">>, <<"0","5">>, <<"6">>, <<"2">>,
                <<"1","2">>, <<"1","3">>, <<"0">>, <<>>}
MonthMarks  == {<<"M">>}
DayPieces   == {<<>>, <<"1","D">>, <<"0","1","D">>, <<"2","D">>, <<"3","0","D">>,
                <<"3","1","D">>, <<"3","2","D">>, <<"0","D">>, <<"1">>, <<"x">>}
Trailers    == {<<>>, <<"x">>}

DateStrings ==
    {y \o ym \o m \o mm \o d \o t :
        y \in YearPieces, ym \in YearMarks, m \in MonthPieces, mm \in MonthMarks,
        d \in DayPieces, t \in Trailers}

Pending == "pending"

NoSession == [search_results |-> <<>>, original_data |-> <<>>, present |-> FALSE]

PendingOut == [kind |-> "pending", title |-> <<>>, volume |-> <<>>, isbn |-> "", sales_date |-> <<>>]

NoResponse == [kind |-> "none", status |-> 0, hasPageCount |-> FALSE, pageCount |-> 0, items |-> <<>>]

NoBookInput == [search_title |-> <<>>, num |-> <<>>, resp |-> NoResponse]

DateIdle == date_str = <<>> /\ date_out = Pending

BookIdle == bk_in = NoBookInput /\ bk_out = PendingOut

RunIdle ==
    /\ sheet = <<>> /\ pc = "idle" /\ rows = <<>> /\ data = <<>> /\ results = <<>>
    /\ idx = 0 /\ session = NoSession /\ queryLog = <<>> /\ updated_count = 0
    /\ writes = <<>> /\ updatesDone = 0 /\ runs = 0

----------------------------------------------------------------------------
(* The date classifier on its own: one call of is_past on any date string  *)

InitDate == date_str \in DateStrings /\ date_out = Pending /\ BookIdle /\ RunIdle

IsPastCall ==
    /\ date_out = Pending
    /\ date_out' = is_past(date_str)
    /\ UNCHANGED <<date_str, bookVars, runVars>>

NextDate == IsPastCall

SpecDate == InitDate /\ [][NextDate]_vars

\* The ways a number below 100 is written in one or two digits.
Forms(n) == IF n < 10 THEN {NatStr(n), <<"0">> \o NatStr(n)} ELSE {NatStr(n)}

C7Years == {2025, 2026, 2027}

C7Earlier(y, m, d) ==
    y * 10000 + m * 100 + d < TodayYear * 10000 + TodayMonth * 100 + TodayDay

C7LooksLikeYearMonth(s) ==
    /\ Len(s) >= 7
    /\ \A k \in 1..4 : s[k] \in Digits
    /\ s[5] = "Y"
    /\ s[6] \in Digits
    /\ \/ s[7] = "M"
       \/ s[7] \in Digits /\ Len(s) >= 8 /\ s[8] = "M"

\* C7: is_past against the reference date. A string that starts with a full
\* calendar date (year, month, day, in one or two digits each) is past iff that
\* date is strictly earlier than the reference date; a string that starts with
\* a year and a month not followed by a day is past iff year*100+month is
\* strictly less than the reference's year*100+month; a string that matches
\* neither pattern yields the format error, never a boolean.
C7_IsPastClassifies ==
    date_out # Pending =>
      /\ \A y \in C7Years :
           HasPrefix(date_str, NatStr(y) \o <<"Y">>) =>
             \A m \in 1..12 : \A mf \in Forms(m) :
               LET ym == NatStr(y) \o <<"Y">> \o mf \o <<"M">>
               IN HasPrefix(date_str, ym) =>
                    /\ \A d \in 1..DaysInMonth(y, m) : \A df \in Forms(d) :
                         HasPrefix(date_str, ym \o df \o <<"D">>) =>
                           date_out = Bool(C7Earlier(y, m, d))
                    /\ (~ \E d \in 0..99 : \E df \in Forms(d) :
                            HasPrefix(date_str, ym \o df \o <<"D">>)) =>
                         date_out = Bool(y * 100 + m < TodayYear * 100 + TodayMonth)
      /\ ~C7LooksLikeYearMonth(date_str) => date_out = "ValueError"

\* The reference date itself, written as a full date, was classified not past.
C7_Witness ==
    /\ date_str = <<"2","0","2","6","Y","5","M","1","D">>
    /\ date_out = "false"

----------------------------------------------------------------------------
(* The resolver on its own: one call of get_books on any response          *)

MaxItems == 2

PastDate     == <<"2","0","2","6","Y","4","M","3","0","D">>
UpcomingDate == <<"2","0","2","6","Y","5","M">>
UnknownDate  == <<"x">>

BookTitles == {<<"F","4">>, <<"F","5","x">>, <<"F","1">>}
BookDates  == {PastDate, UpcomingDate, UnknownDate}
Isbns      == {"a", "b"}

Items == [title : BookTitles, salesDate : BookDates, isbn : Isbns]

ItemLists(S, n) == UNION {[1..k -> S] : k \in 0..n}

\* What requests.get and response.json() hand to get_books: an exception, a
\* status other than 200, or a body with or without "pageCount" and with its
\* "Items" (a missing "Items" key reads as the empty list, line 101).
PageFields == {<<FALSE, 0>>, <<TRUE, 0>>, <<TRUE, 1>>}

Responses(S, n, pages) ==
    {[NoResponse EXCEPT !.kind = "ConnectionError"]}
      \cup {[NoResponse EXCEPT !.kind = "http", !.status = 404]}
      \cup {[kind |-> "http", status |-> HttpOk, hasPageCount |-> pg[1],
             pageCount |-> pg[2], items |-> l] :
               pg \in pages, l \in ItemLists(S, n)}

Patterns == {<<"F","n","u","m">>, <<>>}
Nums     == {<<"3">>, <<>>, <<"x">>}

InitBooks ==
    /\ bk_in \in [search_title : Patterns, num : Nums, resp : Responses(Items, MaxItems, PageFields)]
    /\ bk_out = PendingOut
    /\ DateIdle /\ RunIdle

GetBooksCall ==
    /\ bk_out = PendingOut
    /\ bk_out' = get_books(bk_in.resp, bk_in.search_title, bk_in.num)
    /\ UNCHANGED <<bk_in, dateVars, runVars>>

NextBooks == GetBooksCall

SpecBooks == InitBooks /\ [][NextBooks]_vars

\* The query succeeded and the catalog reported a non-empty page.
PageServed(resp) == resp.kind = "http" /\ resp.status = HttpOk /\ PageCount(resp) >= 1

\* The item satisfies both predicates for the volume after cur.
Qualifies(book, pattern, cur) ==
    /\ is_past(book.salesDate) = "true"
    /\ Contains(Replace(pattern, Placeholder, Str(cur + 1)), book.title)

FirstQualifying(books, pattern, cur) ==
    CHOOSE k \in 1..Len(books) :
        /\ Qualifies(books[k], pattern, cur)
        /\ \A j \in 1..(k - 1) : ~Qualifies(books[j], pattern, cur)

\* C2: a query whose transport reports a status other than success ends in a
\* failure outcome, never in the outcome None of "no item qualified".
C2_FailedQueryRaises ==
    (bk_out # PendingOut /\ bk_in.resp.kind = "http" /\ bk_in.resp.status # HttpOk)
        => bk_out.kind = "raise"

\* C5: on a served page, for a current volume cur, the resolver returns the
\* first item in catalog order that satisfies both predicates, with volume
\* str(cur + 1), and None iff no item of the page satisfies both.
C5_FirstQualifyingWins ==
    (bk_out # PendingOut /\ PageServed(bk_in.resp) /\ IntParse(bk_in.num).ok) =>
        LET cur   == IntParse(bk_in.num).value
            books == bk_in.resp.items
        IN IF \E k \in 1..Len(books) : Qualifies(books[k], bk_in.search_title, cur)
           THEN bk_out = Found(books[FirstQualifying(books, bk_in.search_title, cur)],
                               Str(cur + 1))
           ELSE bk_out = NoneOut

\* C6: an empty currentVolume resolves as volume 0: a past-dated item that
\* contains the pattern with "num" replaced by "1" is returned with volume "1".
C6_EmptyVolumeIsZero ==
    (/\ bk_out # PendingOut
     /\ bk_in.num = <<>>
     /\ PageServed(bk_in.resp)
     /\ \A k \in 1..Len(bk_in.resp.items) :
            is_past(bk_in.resp.items[k].salesDate) # "ValueError"
     /\ \E k \in 1..Len(bk_in.resp.items) :
            Qualifies(bk_in.resp.items[k], bk_in.search_title, 0))
        => (bk_out.kind = "result" /\ bk_out.volume = <<"1">>)

\* C9: an item whose date matches neither pattern only fails to qualify: when
\* such an item precedes an item that satisfies both predicates, the later
\* item is still returned and the series does not fail.
C9_UnparseableDateSkipsItem ==
    (bk_out # PendingOut /\ PageServed(bk_in.resp) /\ IntParse(bk_in.num).ok) =>
        LET cur   == IntParse(bk_in.num).value
            books == bk_in.resp.items
        IN \A k \in 1..Len(books) : \A j \in 1..(k - 1) :
             (/\ is_past(books[j].salesDate) = "ValueError"
              /\ Qualifies(books[k], bk_in.search_title, cur))
                => (bk_out.kind = "result" /\ bk_out.kind # "raise")

----------------------------------------------------------------------------
(* main: ingestion (lines 262-286), the reconciliation loop (302-328), the  *)
(* store (333-337), and the update and clear buttons (359-375)             *)

\* Lines 265-275: a row is kept when it has at least 3 cells and its first
\* cell is not blank.
KeepRowAnyTitle(row) == Len(row) >= 3

KeepRow(row) == Len(row) >= 3 /\ Strip(row[1]) # <<>>

\* Lines 277-281
Series(row) ==
    [title |-> Strip(row[1]), search_title |-> Strip(row[2]), number |-> Strip(row[3])]

\* Lines 263-281, over rows[1:]
Ingest(rws) ==
    LET kept == SelectSeq(Tail(rws), KeepRow)
    IN [k \in 1..Len(kept) |-> Series(kept[k])]

\* Lines 318-325; the four display keys of the dict are named title, volume,
\* sales_date and isbn here.
ResultEntryFirst(i, item, out) ==
    [original_index |-> 0, original_title |-> item.title, title |-> out.title,
     volume |-> out.volume, sales_date |-> out.sales_date, isbn |-> out.isbn]

ResultEntry(i, item, out) ==
    [original_index |-> i, original_title |-> item.title, title |-> out.title,
     volume |-> out.volume, sales_date |-> out.sales_date, isbn |-> out.isbn]

\* Lines 326-328: the except clause reports and continues with the next series.
AfterErrorBreak(i, n) == n

AfterError(i, n) == i + 1

\* worksheet.update_cell(row, col, value): the cell is set, the grid growing
\* to hold it.
PadTo(seq, n, filler) == seq \o [k \in 1..(n - Len(seq)) |-> filler]

update_cell(ws, row, col, value) ==
    LET grown == PadTo(ws, row, <<>>)
    IN [grown EXCEPT ![row] = [PadTo(grown[row], col, <<>>) EXCEPT ![col] = value]]

VolumeColumn == 3

\* Line 133
RowNum(original_index) == original_index + 2

\* Lines 124-136, over the results left, from the state so far
RECURSIVE UpdateLoop(_, _, _)
UpdateLoop(acc, original_data, res) ==
    IF res = <<>> THEN acc
    ELSE LET result         == Head(res)
             original_index == result.original_index
             new_volume     == result.volume
             current_volume == original_data[original_index + 1].number
         IN IF new_volume # current_volume                                \* line 131
            THEN UpdateLoop(
                   [sheet |-> update_cell(acc.sheet, RowNum(original_index),
                                          VolumeColumn, new_volume),
                    writes |-> Append(acc.writes,
                                      [original_index |-> original_index,
                                       row |-> RowNum(original_index),
                                       col |-> VolumeColumn, value |-> new_volume]),
                    count |-> acc.count + 1],
                   original_data, Tail(res))
            ELSE UpdateLoop(acc, original_data, Tail(res))

update_spreadsheet(ws, original_data, res) ==
    UpdateLoop([sheet |-> ws, writes |-> <<>>, count |-> 0], original_data, res)

MaxRows == 2
MaxRunItems == 1
MaxRuns == 1

Header == << <<"t">>, <<"p">>, <<"n">> >>

RowKinds ==
    { << <<" ","F">>, <<"F","n","u","m">>, <<"3"," ">> >>, \* a complete row
      << <<" ">>, <<"G","n","u","m">>, <<"1">> >>,       \* blank title
      << <<"G">>, <<"G","n","u","m">> >>,                \* two cells only
      << <<"K">>, <<>>, <<" ">> >> }                     \* empty pattern, blank volume

Sheets == {<<>>} \cup {<<Header>> \o l : l \in ItemLists(RowKinds, MaxRows)}

RunItems == [title : {<<"F","4">>}, salesDate : BookDates, isbn : {"a"}]

\* The responses of a run: those without "pageCount" (read as 1), and one that
\* reports no page while carrying an item.
RunResponses ==
    Responses(RunItems, MaxRunItems, {<<FALSE, 0>>})
      \cup {[kind |-> "http", status |-> HttpOk, hasPageCount |-> TRUE, pageCount |-> 0,
             items |-> <<[title |-> <<"F","4">>, salesDate |-> PastDate, isbn |-> "a"]>>]}

InitRun ==
    /\ sheet \in Sheets
    /\ pc = "idle" /\ rows = <<>> /\ data = <<>> /\ results = <<>> /\ idx = 0
    /\ session = NoSession /\ queryLog = <<>> /\ updated_count = 0
    /\ writes = <<>> /\ updatesDone = 0 /\ runs = 0
    /\ DateIdle /\ BookIdle

\* Lines 208-259 end the script run early: no connection to the spreadsheet,
\* or a sheet without rows; lines 283-286: no valid row.
StartCheckReturns(connected) ==
    /\ pc = "idle" /\ runs < MaxRuns
    /\ IF connected /\ sheet # <<>> THEN Ingest(sheet) = <<>> ELSE TRUE
    /\ runs' = runs + 1
    /\ UNCHANGED <<sheet, pc, rows, data, results, idx, session, queryLog,
                   updated_count, writes, updatesDone, dateVars, bookVars>>

\* Lines 208-302: the sheet is read and the tracked series built.
StartCheck ==
    /\ pc = "idle" /\ runs < MaxRuns
    /\ sheet # <<>> /\ Ingest(sheet) # <<>>
    /\ rows' = sheet
    /\ data' = Ingest(sheet)
    /\ results' = <<>>
    /\ idx' = 0
    /\ queryLog' = <<>>
    /\ pc' = "loop"
    /\ runs' = runs + 1
    /\ updatesDone' = 0 /\ writes' = <<>> /\ updated_count' = 0
    /\ UNCHANGED <<sheet, session, dateVars, bookVars>>

\* Lines 304-328: one iteration of the loop, for the response resp.
QueryStep(resp) ==
    /\ pc = "loop" /\ idx < Len(data)
    /\ LET item == data[idx + 1]
           out  == get_books(resp, item.search_title, item.number)
       IN /\ results' = IF out.kind = "result"
                        THEN Append(results, ResultEntry(idx, item, out))
                        ELSE results
          /\ idx' = IF out.kind = "raise" THEN AfterError(idx, Len(data)) ELSE idx + 1
          /\ queryLog' = Append(queryLog,
                                [index |-> idx, kind |-> out.kind,
                                 served |-> resp.kind = "http" /\ resp.status = HttpOk])
    /\ UNCHANGED <<sheet, pc, rows, data, session, updated_count, writes,
                   updatesDone, runs, dateVars, bookVars>>

\* Lines 331-337: the loop is over, the results go to the session state.
FinishCheck ==
    /\ pc = "loop" /\ idx >= Len(data)
    /\ session' = [search_results |-> results, original_data |-> data, present |-> TRUE]
    /\ pc' = "idle"
    /\ data' = <<>> /\ results' = <<>> /\ idx' = 0
    /\ UNCHANGED <<sheet, rows, queryLog, updated_count, writes, updatesDone,
                   runs, dateVars, bookVars>>

\* Lines 359-366: the update button, shown while there are results. A call of
\* update_cell that fails is not modelled.
UpdateButton ==
    /\ pc = "idle" /\ session.present /\ session.search_results # <<>>
    /\ LET r == update_spreadsheet(sheet, session.original_data, session.search_results)
       IN /\ sheet' = r.sheet
          /\ writes' = r.writes
          /\ updated_count' = r.count
    /\ updatesDone' = IF updatesDone = 0 THEN 1 ELSE 2
    /\ UNCHANGED <<pc, rows, data, results, idx, session, queryLog, runs,
                   dateVars, bookVars>>

\* Lines 370-375: the clear button.
ClearButton ==
    /\ pc = "idle" /\ session.present /\ session.search_results # <<>>
    /\ session' = NoSession
    /\ rows' = <<>> /\ queryLog' = <<>>
    /\ updatesDone' = 0 /\ writes' = <<>> /\ updated_count' = 0
    /\ UNCHANGED <<sheet, pc, data, results, idx, runs, dateVars, bookVars>>

Init == InitRun

Next ==
    \/ \E connected \in BOOLEAN : StartCheckReturns(connected)
    \/ StartCheck
    \/ \E resp \in RunResponses : QueryStep(resp)
    \/ FinishCheck
    \/ UpdateButton
    \/ ClearButton

Spec == Init /\ [][Next]_vars

\* The loop is sequential code: a started iteration ends (get_books returns
\* or raises) and the statements after the loop are executed.
FairSpec ==
    /\ Spec
    /\ WF_vars(\E resp \in RunResponses : QueryStep(resp))
    /\ WF_vars(FinishCheck)

----------------------------------------------------------------------------
(* Properties of the run                                                   *)

\* The sheet rows (1-based, row 1 the header) that ingestion is to keep: at
\* least 3 cells and a title that is not blank.
SourceRows(rws) == {k \in 2..Len(rws) : Len(rws[k]) >= 3 /\ Strip(rws[k][1]) # <<>>}

\* The sheet row of the j-th tracked series (j from 1).
SourceRow(rws, j) ==
    CHOOSE k \in SourceRows(rws) : Cardinality({x \in SourceRows(rws) : x < k}) = j - 1

Populated(row, n) == Len(row) >= n /\ \A c \in 1..n : Strip(row[c]) # <<>>

\* The result list the run has built: the local list inside the loop, the
\* stored one after it.
RunResults == IF pc = "loop" THEN results ELSE session.search_results

HasEntry(i) == \E r \in 1..Len(RunResults) : RunResults[r].original_index = i

C1_Entries ==
    (pc = "loop" \/ session.present) =>
        /\ pc = "loop" => Len(queryLog) = idx
        /\ \A k \in 1..Len(queryLog) :
             /\ (queryLog[k].kind = "raise" \/ ~queryLog[k].served) => ~HasEntry(k - 1)
             /\ queryLog[k].kind = "result" => HasEntry(k - 1)

C1_Step ==
    /\ (pc = "loop" /\ idx < Len(data)) => (pc' = "loop" /\ idx' = idx + 1)
    /\ (pc = "loop" /\ pc' = "idle") =>
          /\ idx = Len(data)
          /\ session' = [search_results |-> results, original_data |-> data,
                         present |-> TRUE]

\* C1: a failure while resolving one series never aborts the run. Every step
\* of the loop goes on to the next series whatever the outcome, the loop is
\* left only after the last series, and it is left by storing the result list;
\* a series whose call raised or whose query was not served has no entry, and
\* every series for which the resolver returned a candidate has one; a run
\* that entered the loop does end with the results stored.
C1_FailureIsolated ==
    /\ [](C1_Entries)
    /\ [][C1_Step]_vars
    /\ (pc = "loop") ~> (pc = "idle" /\ session.present)

\* A run was stored in which one series failed and a later one got its entry.
C1_Witness ==
    /\ pc = "idle" /\ session.present
    /\ \E k \in 1..Len(queryLog) : \E j \in (k + 1)..Len(queryLog) :
         /\ queryLog[k].kind = "raise"
         /\ queryLog[j].kind = "result"
         /\ HasEntry(j - 1) /\ ~HasEntry(k - 1)

\* C3: every write of the update step goes to column 3 of the sheet row from
\* which that result's series was read.
C3_WriteHitsSourceRow ==
    pc = "idle" =>
        \A w \in 1..Len(writes) :
            /\ writes[w].col = 3
            /\ writes[w].row = SourceRow(rows, writes[w].original_index + 1)

\* C4: the second of two update steps in succession, with the same stored
\* results, performs no write.
C4_SecondUpdateWritesNothing == updatesDone >= 2 => updated_count = 0

\* C8, as stated: the tracked series are exactly the non-header rows with all
\* 3 leading cells populated, so no series has an empty pattern.
C8_OnlyPopulatedRows ==
    pc = "loop" =>
        /\ Len(data) = Cardinality({k \in 2..Len(rows) : Populated(rows[k], 3)})
        /\ \A j \in 1..Len(data) : data[j].search_title # <<>>

\* C8, amended: the tracked series are, in sheet order, exactly the non-header
\* rows that have at least 3 cells and a title that is not blank, each with
\* its three leading cells trimmed; the pattern and volume cells may be empty.
C8_RowsWithThreeCellsAndTitle ==
    pc = "loop" =>
        /\ Len(data) = Cardinality(SourceRows(rows))
        /\ \A j \in 1..Len(data) :
             LET row == rows[SourceRow(rows, j)]
             IN data[j] = [title |-> Strip(row[1]), search_title |-> Strip(row[2]),
                           number |-> Strip(row[3])]

\* Ingestion skipped a row with a blank title and kept a later one whose
\* pattern and volume cells are empty.
C8_Witness ==
    /\ pc = "loop"
    /\ Len(rows) = 3 /\ Len(data) = 1
    /\ Strip(rows[2][1]) = <<>>
    /\ data[1].search_title = <<>> /\ data[1].number = <<>>

C10_Order ==
    pc = "loop" =>
        /\ Len(queryLog) = idx
        /\ \A k \in 1..Len(queryLog) : queryLog[k].index = k - 1
        /\ \A r \in 1..Len(results) :
             /\ results[r].original_index \in 0..(idx - 1)
             /\ results[r].original_title = data[results[r].original_index + 1].title
        /\ \A r \in 1..Len(results) : \A q \in (r + 1)..Len(results) :
             results[r].original_index < results[q].original_index

C10_Step ==
    (pc = "loop" /\ pc' = "loop") =>
        /\ Len(queryLog') = Len(queryLog) + 1
        /\ SubSeq(queryLog', 1, Len(queryLog)) = queryLog
        /\ queryLog'[Len(queryLog')].index = idx
        /\ \/ results' = results
           \/ /\ Len(results') = Len(results) + 1
              /\ SubSeq(results', 1, Len(results)) = results

\* C10: every tracked series is queried exactly once, in input order, and
\* the result list only grows at its end, with strictly increasing
\* original_index values, each the position of its series in the list.
C10_OncePerSeriesInOrder == [](C10_Order) /\ [][C10_Step]_vars

\* Both series of a run were queried, the first one's call raised and got no
\* retry, and the second one's entry carries its position 1.
C10_Witness ==
    /\ pc = "loop" /\ idx = 2
    /\ queryLog[1].kind = "raise"
    /\ Len(results) = 1
    /\ results[1].original_index = 1

====
